---- MODULE Spec2Model ----
\* A model of statusline.py: one run of main() as a sequence of steps, and the
\* helper functions get_usage_color / format_reset_time called on their own.
EXTENDS Integers, Sequences, FiniteSets, TLC

VARIABLES
    pc,                 \* position of the run: the next statement of main(), "exit", or "unit"
    system,             \* platform.system() of the host
    now,                \* datetime.now(timezone.utc), in ticks
    stdin,              \* the text on standard input
    data,               \* json.loads(raw)
    project,            \* main's locals
    model,
    context_percentage,
    access_token,
    usage_data,
    usage_str,
    context_usage_str,
    stdout,             \* what has been written to standard output (atoms of text)
    exc,                \* the exception that reached the process boundary, or "none"
    exit_status,        \* the process's exit status once pc = "exit", -1 before
    trace,              \* the stages and external effects that have happened, in order
    call                \* a direct call of a helper function: its argument and result

vars == <<pc, system, now, stdin, data, project, model, context_percentage,
          access_token, usage_data, usage_str, context_usage_str, stdout, exc,
          exit_status, trace, call>>

-----------------------------------------------------------------------------
\* Bounds of the model.

\* Numbers are fixed-point: the integer n stands for n / PctScale.
PctScale == 10
\* Time is counted in ticks; TicksPerSecond ticks make a second.
TicksPerSecond == 2
\* Percentages offered to get_usage_color lie in MinPct .. MaxPct (whole percents).
MaxPct == 120
MinPct == 0 - 20
\* Reset instants lie up to MaxDays days (and some hours) from now.
MaxDays == 2

-----------------------------------------------------------------------------
\* Program constants.

BLUE == "\\033[34m"
GREEN == "\\033[32m"
YELLOW == "\\033[33m"
RED == "\\033[31m"
RESET == "\\033[0m"
USAGE_THRESHOLD_HIGH == 80
USAGE_THRESHOLD_MEDIUM == 50

-----------------------------------------------------------------------------
\* JSON / Python values. A value is [t, n, s]: t its type, n its number (a num,
\* fixed-point; a bool, 0 or 1; a list or dict, its length), s its text (a str),
\* a sequence of atoms. "absent" marks a key that the enclosing object lacks.

Absent == [t |-> "absent", n |-> 0, s |-> <<>>]
Null == [t |-> "null", n |-> 0, s |-> <<>>]
Bool(b) == [t |-> "bool", n |-> IF b THEN 1 ELSE 0, s |-> <<>>]
Num(n) == [t |-> "num", n |-> n, s |-> <<>>]
Whole(i) == Num(i * PctScale)
Str(s) == [t |-> "str", n |-> 0, s |-> s]
Arr(len) == [t |-> "arr", n |-> len, s |-> <<>>]
Obj(len) == [t |-> "obj", n |-> len, s |-> <<>>]

\* bool(v) of Python
Truthy(v) ==
    CASE v.t = "null" -> FALSE
      [] v.t = "bool" -> v.n = 1
      [] v.t = "num" -> v.n # 0
      [] v.t = "str" -> Len(v.s) > 0
      [] v.t = "arr" -> v.n > 0
      [] v.t = "obj" -> v.n > 0

\* dict.get(key, default), v being the value under the key or Absent
Get(v, default) == IF v.t = "absent" THEN default ELSE v

\* `v or 0`
Or0(v) == IF Truthy(v) THEN v ELSE Whole(0)

\* whether a value is an int, float or bool (what >= and :.0f accept)
IsNumber(v) == v.t \in {"num", "bool"}

\* the fixed-point number of an int, float or bool
NumVal(v) == IF v.t = "bool" THEN v.n * PctScale ELSE v.n

\* str(v), as an f-string renders it
PyStr(v) ==
    CASE v.t = "str" -> v.s
      [] v.t = "null" -> <<"None">>
      [] v.t = "bool" -> IF v.n = 1 THEN <<"True">> ELSE <<"False">>
      [] v.t = "arr" /\ v.n = 0 -> <<"[]">>
      [] v.t = "obj" /\ v.n = 0 -> <<"{}">>

\* f"{x:.0f}" of the fixed-point number n: rounded to the nearest integer, ties
\* to even; a negative number keeps its sign even when it rounds to zero.
RoundHalfEven(m) ==
    LET q == m \div PctScale
        r == m % PctScale
    IN  IF 2 * r < PctScale THEN q
        ELSE IF 2 * r > PctScale THEN q + 1
        ELSE IF q % 2 = 0 THEN q ELSE q + 1

Format0f(n) ==
    IF n < 0 THEN "-" \o ToString(RoundHalfEven(0 - n)) ELSE ToString(RoundHalfEven(n))

\* A function's outcome: the exception it raised ("none" when it returned) and
\* the value it returned.
Raise(e) == [exc |-> e, value |-> <<>>]
Return(v) == [exc |-> "none", value |-> v]

-----------------------------------------------------------------------------
\* get_usage_color (statusline.py:170-175)

\* A variant with a strict comparison at the high threshold.
get_usage_color_strict(percentage) ==
    IF ~IsNumber(percentage) THEN Raise("TypeError")
    ELSE IF NumVal(percentage) > USAGE_THRESHOLD_HIGH * PctScale THEN Return(<<RED>>)
    ELSE IF NumVal(percentage) >= USAGE_THRESHOLD_MEDIUM * PctScale THEN Return(<<YELLOW>>)
    ELSE Return(<<GREEN>>)

get_usage_color(percentage) ==
    IF ~IsNumber(percentage) THEN Raise("TypeError")
    ELSE IF NumVal(percentage) >= USAGE_THRESHOLD_HIGH * PctScale THEN Return(<<RED>>)
    ELSE IF NumVal(percentage) >= USAGE_THRESHOLD_MEDIUM * PctScale THEN Return(<<YELLOW>>)
    ELSE Return(<<GREEN>>)

\* f"{get_usage_color(p)}{p:.0f}%{RESET}" (statusline.py:48, 165, 166)
ColoredPercentage(p) ==
    LET c == get_usage_color(p)
    IN  IF c.exc # "none" THEN c
        ELSE Return(c.value \o <<Format0f(NumVal(p)), "%", RESET>>)

-----------------------------------------------------------------------------
\* format_reset_time (statusline.py:112-147)

\* A resets_at value is [t, n, form, wall, off]: t and n as above; for a str,
\* form is how it is written ("empty", "garbage", or an ISO-8601 timestamp with a
\* trailing "Z", with a numeric UTC "offset", or "naive" with no zone), wall is the
\* wall-clock reading written in it (ticks) and off the UTC offset written in it
\* (minutes).
RAbsent == [t |-> "absent", n |-> 0, form |-> "none", wall |-> 0, off |-> 0]
RNull == [t |-> "null", n |-> 0, form |-> "none", wall |-> 0, off |-> 0]
ROther(t, n) == [t |-> t, n |-> n, form |-> "none", wall |-> 0, off |-> 0]
RText(form) == [t |-> "str", n |-> 0, form |-> form, wall |-> 0, off |-> 0]
RStamp(form, wall, off) == [t |-> "str", n |-> 0, form |-> form, wall |-> wall, off |-> off]

\* bool(r) of a resets_at value
RTruthy(r) ==
    CASE r.t \in {"absent", "null"} -> FALSE
      [] r.t = "str" -> r.form # "empty"
      [] OTHER -> r.n # 0

TicksPerMinute == 60 * TicksPerSecond

\* datetime.fromisoformat after the trailing 'Z' has become '+00:00', with a
\* naive result taken as UTC: the instant (ticks, UTC) the text denotes.
\* (statusline.py:117-123)
ParseInstant(r) ==
    LET offset == IF r.form = "Z" THEN 0
                  ELSE IF r.form = "naive" THEN 0
                  ELSE r.off
    IN  r.wall - offset * TicksPerMinute

\* A variant that takes the hours from the whole duration, not from the
\* remainder after the days.
HumanizeDelta_total_hours(delta) ==
    LET total_seconds == delta \div TicksPerSecond
        days == total_seconds \div (24 * 3600)
        hours == total_seconds \div 3600
        minutes == (total_seconds % 3600) \div 60
    IN  IF days > 0 THEN <<" (", ToString(days), "d ", ToString(hours), "h)">>
        ELSE IF hours > 0 THEN <<" (", ToString(hours), "h ", ToString(minutes), "m)">>
        ELSE IF minutes > 0 THEN <<" (", ToString(minutes), "m)">>
        ELSE <<" (<1m)">>

\* f" ({days}d {hours}h)" etc. (statusline.py:131-145), from timedelta ticks > 0
HumanizeDelta(delta) ==
    LET total_seconds == delta \div TicksPerSecond
        days == total_seconds \div (24 * 3600)
        remainder_after_days == total_seconds % (24 * 3600)
        hours == remainder_after_days \div 3600
        minutes == (remainder_after_days % 3600) \div 60
    IN  IF days > 0 THEN <<" (", ToString(days), "d ", ToString(hours), "h)">>
        ELSE IF hours > 0 THEN <<" (", ToString(hours), "h ", ToString(minutes), "m)">>
        ELSE IF minutes > 0 THEN <<" (", ToString(minutes), "m)">>
        ELSE <<" (<1m)">>

format_reset_time(resets_at_str, t_now) ==
    IF ~RTruthy(resets_at_str) THEN Return(<<>>)
    ELSE IF resets_at_str.t # "str" THEN Raise("AttributeError")
    ELSE IF resets_at_str.form = "garbage" THEN Return(<<>>)
    ELSE LET delta == ParseInstant(resets_at_str) - t_now
         IN  IF delta <= 0 THEN Return(<<" (now)">>)
             ELSE Return(HumanizeDelta(delta))

-----------------------------------------------------------------------------
\* format_usage (statusline.py:150-168)

\* A usage window as the usage body holds it: v is the value under the window's
\* key ("five_hour" / "seven_day"), utilization and resets_at the values under
\* those keys when v is an object.
Window(v, utilization, resets_at) ==
    [v |-> v, utilization |-> utilization, resets_at |-> resets_at]
NoWindow == Window(Absent, Absent, RAbsent)

\* The usage body: top is the top-level value (None is Null).
Usage(top, five_hour, seven_day) ==
    [top |-> top, five_hour |-> five_hour, seven_day |-> seven_day]
NoneUsage == Usage(Null, NoWindow, NoWindow)

\* The exception of the first outcome that raised, "none" when none did.
FirstRaised(outs) ==
    LET bad == {i \in DOMAIN outs : outs[i].exc # "none"}
    IN  IF bad = {} THEN "none"
        ELSE outs[CHOOSE i \in bad : \A j \in bad : i <= j].exc

\* x.get(...) on the value x: only a dict has .get
DictGet(x) == IF x.t = "obj" THEN Return(x) ELSE Raise("AttributeError")

format_usage(usage, t_now) ==
    IF ~Truthy(usage.top) THEN Return(<<RED, "Usage: N/A", RESET>>)
    ELSE IF usage.top.t # "obj" THEN Raise("AttributeError")
    ELSE
    LET five_hour_usage == Get(usage.five_hour.v, Obj(0))
        weekly_usage == Get(usage.seven_day.v, Obj(0))
        five_hour_percentage == Or0(Get(usage.five_hour.utilization, Whole(0)))
        weekly_percentage == Or0(Get(usage.seven_day.utilization, Whole(0)))
        five_hour_reset_str == format_reset_time(usage.five_hour.resets_at, t_now)
        weekly_reset_str == format_reset_time(usage.seven_day.resets_at, t_now)
        five_hour_str == ColoredPercentage(five_hour_percentage)
        weekly_str == ColoredPercentage(weekly_percentage)
        raised == FirstRaised(<<DictGet(five_hour_usage), DictGet(weekly_usage),
                                five_hour_reset_str, weekly_reset_str,
                                five_hour_str, weekly_str>>)
    IN  IF raised # "none" THEN Raise(raised)
        ELSE Return(<<"5h: ">> \o five_hour_str.value \o five_hour_reset_str.value
                    \o <<" | 7d: ">> \o weekly_str.value \o weekly_reset_str.value)

-----------------------------------------------------------------------------
\* Exceptions: the classes an exception is an instance of, and `except (...)`.

Bases(e) ==
    CASE e = "JSONDecodeError" -> {"JSONDecodeError", "ValueError"}
      [] e = "UnicodeDecodeError" -> {"UnicodeDecodeError", "ValueError"}
      [] e = "FileNotFoundError" -> {"FileNotFoundError", "OSError"}
      [] e = "PermissionError" -> {"PermissionError", "OSError"}
      [] e = "IsADirectoryError" -> {"IsADirectoryError", "OSError"}
      [] e = "URLError" -> {"URLError", "OSError"}
      [] e = "HTTPError" -> {"HTTPError", "URLError", "OSError"}
      [] e = "TimeoutError" -> {"TimeoutError", "OSError"}
      [] e = "RemoteDisconnected" -> {"RemoteDisconnected", "ConnectionResetError", "OSError"}
      [] e = "IncompleteRead" -> {"IncompleteRead", "HTTPException"}
      [] OTHER -> {e}

\* try: <out> except <handlers>: return None  (none is how the caller holds None)
ExceptReturnNone(out, handlers, none) ==
    IF out.exc # "none" /\ Bases(out.exc) \cap handlers # {} THEN Return(none) ELSE out

-----------------------------------------------------------------------------
\* get_access_token (statusline.py:55-93)

\* What the credential store holds and how reading it goes: io is "ok" or the
\* exception that subprocess.run / open / read raises; text is what was read
\* ("empty", "garbage", or "json"); for JSON text, top is its top-level value,
\* oauth the value under "claudeAiOauth", token the value under "accessToken".
Store(io, text, top, oauth, token) ==
    [io |-> io, text |-> text, top |-> top, oauth |-> oauth, token |-> token]

\* creds.get("claudeAiOauth", {}).get("accessToken") (statusline.py:80, 91)
ReadAccessToken(store) ==
    IF store.top.t # "obj" THEN Raise("AttributeError")
    ELSE IF Get(store.oauth, Obj(0)).t # "obj" THEN Raise("AttributeError")
    ELSE Return(Get(store.token, Null))

MacosBody(store) ==
    IF store.io # "ok" THEN Raise(store.io)
    ELSE IF store.text = "empty" THEN Return(Null)
    ELSE IF store.text = "garbage" THEN Raise("JSONDecodeError")
    ELSE ReadAccessToken(store)

get_access_token_macos(store) ==
    ExceptReturnNone(MacosBody(store),
        {"CalledProcessError", "TimeoutExpired", "JSONDecodeError", "KeyError"}, Null)

LinuxBody(store) ==
    IF store.io # "ok" THEN Raise(store.io)
    ELSE IF store.text \in {"empty", "garbage"} THEN Raise("JSONDecodeError")
    ELSE ReadAccessToken(store)

get_access_token_linux(store) ==
    ExceptReturnNone(LinuxBody(store), {"FileNotFoundError", "JSONDecodeError", "KeyError"}, Null)

get_access_token(sys, store) ==
    IF sys = "Darwin" THEN get_access_token_macos(store)
    ELSE IF sys = "Linux" THEN get_access_token_linux(store)
    ELSE Return(Null)

\* The external store get_access_token touches on a platform.
StoreTouched(sys) ==
    IF sys = "Darwin" THEN <<"security">>
    ELSE IF sys = "Linux" THEN <<"open">>
    ELSE <<>>

-----------------------------------------------------------------------------
\* fetch_usage (statusline.py:96-110)

\* How the request goes: net is "ok" or the exception urlopen or resp.read()
\* raises for a network-level failure; status is the HTTP status of the response;
\* text is what the body holds ("json", "garbage", or "badbytes" that are not
\* UTF-8); body is the decoded JSON value when text = "json".
Fetch(net, status, text, body) == [net |-> net, status |-> status, text |-> text, body |-> body]

\* http.client refuses a header value with a line break in it
ValidHeader(token) == ~(token.t = "str" /\ \E i \in DOMAIN token.s : token.s[i] = "\n")

\* json.loads of a body whose top-level value is null gives None
Decoded(body) == IF body.top.t = "null" THEN NoneUsage ELSE body

FetchBody(token, outcome) ==
    IF ~ValidHeader(token) THEN Raise("ValueError")
    ELSE IF outcome.net # "ok" THEN Raise(outcome.net)
    ELSE IF ~(200 <= outcome.status /\ outcome.status < 300) THEN Raise("HTTPError")
    ELSE IF outcome.text = "badbytes" THEN Raise("UnicodeDecodeError")
    ELSE IF outcome.text = "garbage" THEN Raise("JSONDecodeError")
    ELSE Return(Decoded(outcome.body))

fetch_usage(token, outcome) ==
    ExceptReturnNone(FetchBody(token, outcome),
                     {"URLError", "JSONDecodeError", "TimeoutError"}, NoneUsage)

-----------------------------------------------------------------------------
\* main (statusline.py:25-52)

\* Standard input: kind is "empty", "garbage" (not JSON), "badbytes" (not UTF-8)
\* or "json"; for JSON, top is the top-level value and, when that is an object,
\* the other fields are the values under "cwd", "model", "model.display_name",
\* "context_window" and "context_window.used_percentage".
Input(kind, top, cwd, mdl, display_name, context_window, used_percentage) ==
    [kind |-> kind, top |-> top, cwd |-> cwd, model |-> mdl, display_name |-> display_name,
     context_window |-> context_window, used_percentage |-> used_percentage]
NoInput(kind) == Input(kind, Absent, Absent, Absent, Absent, Absent, Absent)

\* sys.stdin.read() and json.loads(raw) (statusline.py:27-28)
ReadAndParse(input) ==
    IF input.kind = "badbytes" THEN Raise("UnicodeDecodeError")
    ELSE IF input.kind \in {"empty", "garbage"} THEN Raise("JSONDecodeError")
    ELSE Return(input)

\* os.path.basename of a path given as atoms, "/" being the separator
RECURSIVE Basename(_)
Basename(path) ==
    IF path = <<>> THEN <<>>
    ELSE IF path[Len(path)] = "/" THEN <<>>
    ELSE Append(Basename(SubSeq(path, 1, Len(path) - 1)), path[Len(path)])

\* project = os.path.basename(data.get("cwd", "")) (statusline.py:34)
ExtractProject(d) ==
    IF d.top.t # "obj" THEN Raise("AttributeError")
    ELSE IF Get(d.cwd, Str(<<>>)).t # "str" THEN Raise("TypeError")
    ELSE Return(Str(Basename(Get(d.cwd, Str(<<>>)).s)))

\* model = data.get("model", {}).get("display_name", "") (statusline.py:35)
ExtractModel(d) ==
    IF Get(d.model, Obj(0)).t # "obj" THEN Raise("AttributeError")
    ELSE Return(Get(d.display_name, Str(<<>>)))

\* context_percentage = data.get("context_window", {}).get("used_percentage", 0) or 0
\* (statusline.py:36-37)
ExtractContextPercentage(d) ==
    IF Get(d.context_window, Obj(0)).t # "obj" THEN Raise("AttributeError")
    ELSE Return(Or0(Get(d.used_percentage, Whole(0))))

\* An uncaught exception ends the process with a traceback and status 1.
Crash(e) ==
    /\ pc' = "exit"
    /\ exc' = e
    /\ exit_status' = 1

\* statusline.py:26-31
ReadInput ==
    /\ pc = "read"
    /\ LET r == ReadAndParse(stdin)
       IN  IF r.exc # "none"
           THEN /\ stdout' = stdout \o <<"statusline: no data", "\n">>
                /\ trace' = trace \o <<"read", "print">>
                /\ pc' = "exit"
                /\ exit_status' = 0
                /\ UNCHANGED data
           ELSE /\ data' = r.value
                /\ trace' = Append(trace, "read")
                /\ pc' = "extract"
                /\ UNCHANGED <<stdout, exit_status>>
    /\ UNCHANGED <<system, now, stdin, project, model, context_percentage, access_token,
                   usage_data, usage_str, context_usage_str, exc, call>>

\* statusline.py:33-37
ExtractFields ==
    /\ pc = "extract"
    /\ trace' = Append(trace, "extract")
    /\ LET p == ExtractProject(data)
           m == ExtractModel(data)
           c == ExtractContextPercentage(data)
           raised == FirstRaised(<<p, m, c>>)
       IN  IF raised # "none"
           THEN /\ Crash(raised)
                /\ UNCHANGED <<project, model, context_percentage>>
           ELSE /\ project' = p.value
                /\ model' = m.value
                /\ context_percentage' = c.value
                /\ pc' = "lookup"
                /\ UNCHANGED <<exc, exit_status>>
    /\ UNCHANGED <<system, now, stdin, data, access_token, usage_data, usage_str,
                   context_usage_str, stdout, call>>

\* A direct call of a helper: fn the function, p / ts its argument, done whether
\* it has returned or raised, exc and out its outcome.
Call(fn, p, ts) == [fn |-> fn, p |-> p, ts |-> ts, done |-> FALSE, exc |-> "none", out |-> <<>>]
NoCall == Call("none", Absent, RAbsent)
Finished(c, r) == [c EXCEPT !.done = TRUE, !.exc = r.exc, !.out = r.value]

-----------------------------------------------------------------------------
\* The inputs and environments a run may meet.

\* Percentages a JSON field may hold: absent, null, numbers on both sides of
\* each threshold, out-of-range and fractional numbers, and values of other types.
PercentVals ==
    {Absent, Null, Whole(0), Whole(42), Num(USAGE_THRESHOLD_MEDIUM * PctScale - 1),
     Whole(USAGE_THRESHOLD_MEDIUM), Num(USAGE_THRESHOLD_HIGH * PctScale - 1),
     Whole(USAGE_THRESHOLD_HIGH), Whole(MaxPct), Whole(MinPct), Num(0 - 1),
     Bool(TRUE), Str(<<>>), Str(<<"50">>), Arr(0), Arr(1)}

CwdVals ==
    {Absent, Null, Whole(5), Str(<<>>), Str(<<"myproj">>),
     Str(<<"/", "home", "/", "u", "/", "myproj">>), Str(<<"/", "home", "/", "u", "/">>)}

DisplayNameVals == {Absent, Null, Str(<<>>), Str(<<"Claude">>), Bool(TRUE)}

\* The number of keys present among the given values.
Present(vals) == Cardinality({i \in DOMAIN vals : vals[i].t # "absent"})

\* A JSON object on stdin with the given fields.
InputObject(cwd, display_name, used_percentage) ==
    Input("json", Obj(Present(<<cwd>>) + 2), cwd, Obj(Present(<<display_name>>)), display_name,
          Obj(Present(<<used_percentage>>)), used_percentage)

BaseCwd == Str(<<"/", "home", "/", "u", "/", "myproj">>)
BaseName == Str(<<"Claude">>)

StdinCases ==
    {NoInput("empty"), NoInput("garbage"), NoInput("badbytes")}
    \cup {Input("json", top, Absent, Absent, Absent, Absent, Absent) :
            top \in {Str(<<"not json">>), Whole(42), Arr(0), Arr(1), Null, Bool(TRUE), Obj(0)}}
    \cup {InputObject(cwd, BaseName, Whole(42)) : cwd \in CwdVals}
    \cup {InputObject(BaseCwd, dn, Whole(42)) : dn \in DisplayNameVals}
    \cup {InputObject(BaseCwd, BaseName, up) : up \in PercentVals}
    \cup {Input("json", Obj(3), BaseCwd, mdl, Absent, Obj(1), Whole(42)) :
            mdl \in {Null, Str(<<"Claude">>), Arr(0)}}
    \cup {Input("json", Obj(3), BaseCwd, Obj(1), BaseName, cw, Absent) :
            cw \in {Null, Whole(42), Arr(0)}}
    \cup {Input("json", Obj(1), BaseCwd, Absent, Absent, Absent, Absent)}

\* The credential JSON documents a store may hold.
CredentialDocs ==
    {[top |-> top, oauth |-> Absent, token |-> Absent] : top \in {Null, Arr(0), Str(<<"x">>), Obj(0)}}
    \cup {[top |-> Obj(1), oauth |-> oauth, token |-> Absent] :
            oauth \in {Null, Str(<<"x">>), Obj(0)}}
    \cup {[top |-> Obj(1), oauth |-> Obj(1), token |-> token] :
            token \in {Null, Str(<<>>), Str(<<"tok">>), Str(<<"tok", "\n">>), Whole(5)}}

JsonStores == {Store("ok", "json", d.top, d.oauth, d.token) : d \in CredentialDocs}
FailedStore(io) == Store(io, "empty", Absent, Absent, Absent)

\* What get_access_token can meet on a platform.
Stores(sys) ==
    IF sys = "Darwin"
    THEN {FailedStore(io) : io \in {"FileNotFoundError", "CalledProcessError", "TimeoutExpired"}}
         \cup {Store("ok", "empty", Absent, Absent, Absent),
               Store("ok", "garbage", Absent, Absent, Absent)}
         \cup JsonStores
    ELSE IF sys = "Linux"
    THEN {FailedStore(io) : io \in {"FileNotFoundError", "PermissionError",
                                    "IsADirectoryError", "UnicodeDecodeError"}}
         \cup {Store("ok", "empty", Absent, Absent, Absent),
               Store("ok", "garbage", Absent, Absent, Absent)}
         \cup JsonStores
    ELSE {FailedStore("ok")}

TicksPerHour == 60 * TicksPerMinute
TicksPerDay == 24 * TicksPerHour

\* resets_at values a usage window may hold.
ResetVals(t_now) ==
    {RAbsent, RNull, RText("empty"), RText("garbage"), ROther("num", 0),
     ROther("num", 1700000000), ROther("bool", 1), ROther("arr", 1),
     RStamp("Z", t_now + 90 * TicksPerMinute, 0),
     RStamp("offset", t_now + MaxDays * TicksPerDay + 3 * TicksPerHour + 120 * TicksPerMinute, 120),
     RStamp("naive", t_now - TicksPerHour, 0),
     RStamp("Z", t_now + 30 * TicksPerSecond, 0)}

UtilizationVals ==
    {Absent, Null, Num(USAGE_THRESHOLD_MEDIUM * PctScale - 1), Whole(USAGE_THRESHOLD_MEDIUM),
     Whole(USAGE_THRESHOLD_HIGH), Whole(MaxPct), Str(<<"50">>)}

BaseWindow(t_now) == Window(Obj(2), Whole(42), RStamp("Z", t_now + 90 * TicksPerMinute, 0))

Windows(t_now) ==
    {NoWindow, Window(Null, Absent, RAbsent), Window(Arr(1), Absent, RAbsent),
     Window(Whole(5), Absent, RAbsent)}
    \cup {Window(Obj(Present(<<u>>) + Present(<<r>>)), u, r) :
            u \in UtilizationVals, r \in ResetVals(t_now)}

\* A JSON object body with the two windows and `extra` other keys.
Body(five_hour, seven_day, extra) ==
    Usage(Obj(Present(<<five_hour.v, seven_day.v>>) + extra), five_hour, seven_day)

Bodies(t_now) ==
    {Usage(top, NoWindow, NoWindow) :
        top \in {Null, Bool(FALSE), Whole(0), Whole(5), Arr(0), Arr(1), Str(<<"x">>)}}
    \cup {Body(NoWindow, NoWindow, extra) : extra \in {0, 1}}
    \cup {Body(w, BaseWindow(t_now), 0) : w \in Windows(t_now)}
    \cup {Body(BaseWindow(t_now), w, 0) : w \in Windows(t_now)}
    \cup {Body(w, w, 1) : w \in Windows(t_now)}

\* What fetch_usage can meet.
FetchOutcomes(t_now) ==
    {Fetch(net, 0, "json", NoneUsage) : net \in {"URLError", "TimeoutError", "RemoteDisconnected"}}
    \cup {Fetch("IncompleteRead", 200, "json", NoneUsage)}
    \cup {Fetch("ok", status, "json", Body(BaseWindow(t_now), BaseWindow(t_now), 0)) :
            status \in {401, 404, 500, 503}}
    \cup {Fetch("ok", 200, text, NoneUsage) : text \in {"garbage", "badbytes"}}
    \cup {Fetch("ok", 200, "json", b) : b \in Bodies(t_now)}

\* Durations (ticks) from now to a reset instant: every mix of days, hours,
\* minutes, seconds and sub-second ticks, in the future and in the past.
Deltas ==
    {sign * ((((dd * 24 + hh) * 60 + mm) * 60 + ss) * TicksPerSecond + tk) :
        dd \in 0 .. MaxDays, hh \in {0, 1, 3, 23}, mm \in {0, 1, 30, 59},
        ss \in {0, 30, 59}, tk \in 0 .. TicksPerSecond - 1, sign \in {1, 0 - 1}}

\* Timestamps that denote now + d, written in each form.
Stamps(t_now, d) ==
    {RStamp("Z", t_now + d, 0), RStamp("naive", t_now + d, 0)}
    \cup {RStamp("offset", t_now + d + off * TicksPerMinute, off) : off \in {0 - 330, 0, 120}}

UnitCalls(t_now) ==
    {Call("get_usage_color", Num(n), RAbsent) : n \in MinPct * PctScale .. MaxPct * PctScale}
    \cup {Call("get_usage_color", v, RAbsent) : v \in {Bool(TRUE), Bool(FALSE), Null, Str(<<"50">>)}}
    \cup {Call("format_reset_time", Absent, ts) : ts \in ResetVals(t_now)}
    \cup {Call("format_reset_time", Absent, ts) :
            ts \in UNION {Stamps(t_now, d) : d \in Deltas}}

\* A variant that fetches whether or not there is a token.
UsageBranch_always_fetch(token) == "fetch"

\* if access_token: ... else: ... (statusline.py:42, 45): the statement main goes to
UsageBranch(token) == IF Truthy(token) THEN "fetch" ELSE "no_credentials"

\* statusline.py:40, 42 (and 55-93)
GetAccessToken ==
    /\ pc = "lookup"
    /\ \E store \in Stores(system) :
        LET r == get_access_token(system, store)
        IN  /\ trace' = trace \o <<"lookup">> \o StoreTouched(system)
            /\ IF r.exc # "none"
               THEN /\ Crash(r.exc)
                    /\ UNCHANGED access_token
               ELSE /\ access_token' = r.value
                    /\ pc' = UsageBranch(r.value)
                    /\ UNCHANGED <<exc, exit_status>>
    /\ UNCHANGED <<system, now, stdin, data, project, model, context_percentage,
                   usage_data, usage_str, context_usage_str, stdout, call>>

\* statusline.py:43 (and 96-110)
FetchUsage ==
    /\ pc = "fetch"
    /\ \E outcome \in FetchOutcomes(now) :
        LET r == fetch_usage(access_token, outcome)
        IN  /\ trace' = trace \o <<"fetch", "urlopen">>
            /\ IF r.exc # "none"
               THEN /\ Crash(r.exc)
                    /\ UNCHANGED usage_data
               ELSE /\ usage_data' = r.value
                    /\ pc' = "format_usage"
                    /\ UNCHANGED <<exc, exit_status>>
    /\ UNCHANGED <<system, now, stdin, data, project, model, context_percentage,
                   access_token, usage_str, context_usage_str, stdout, call>>

\* statusline.py:44 (and 150-168)
FormatUsage ==
    /\ pc = "format_usage"
    /\ trace' = Append(trace, "format_usage")
    /\ LET r == format_usage(usage_data, now)
       IN  IF r.exc # "none"
           THEN /\ Crash(r.exc)
                /\ UNCHANGED usage_str
           ELSE /\ usage_str' = r.value
                /\ pc' = "format_context"
                /\ UNCHANGED <<exc, exit_status>>
    /\ UNCHANGED <<system, now, stdin, data, project, model, context_percentage,
                   access_token, usage_data, context_usage_str, stdout, call>>

\* statusline.py:45-46
NoCredentials ==
    /\ pc = "no_credentials"
    /\ usage_str' = <<RED, "No credentials", RESET>>
    /\ pc' = "format_context"
    /\ UNCHANGED <<system, now, stdin, data, project, model, context_percentage,
                   access_token, usage_data, context_usage_str, stdout, exc,
                   exit_status, trace, call>>

\* statusline.py:48
FormatContext ==
    /\ pc = "format_context"
    /\ trace' = Append(trace, "format_context")
    /\ LET r == ColoredPercentage(context_percentage)
       IN  IF r.exc # "none"
           THEN /\ Crash(r.exc)
                /\ UNCHANGED context_usage_str
           ELSE /\ context_usage_str' = r.value
                /\ pc' = "print"
                /\ UNCHANGED <<exc, exit_status>>
    /\ UNCHANGED <<system, now, stdin, data, project, model, context_percentage,
                   access_token, usage_data, usage_str, stdout, call>>

\* line = f"{project} | {BLUE}{model}{RESET} | Ctx: {context_usage_str} | {usage_str}"
\* (statusline.py:50)
Line(proj, mdl, ctx_str, usg_str) ==
    PyStr(proj) \o <<" | ", BLUE>> \o PyStr(mdl) \o <<RESET, " | Ctx: ">> \o ctx_str
        \o <<" | ">> \o usg_str

\* statusline.py:50-52, and the return from main
PrintLine ==
    /\ pc = "print"
    /\ stdout' = stdout \o Line(project, model, context_usage_str, usage_str) \o <<"\n">>
    /\ trace' = Append(trace, "print")
    /\ pc' = "exit"
    /\ exit_status' = 0
    /\ UNCHANGED <<system, now, stdin, data, project, model, context_percentage,
                   access_token, usage_data, usage_str, context_usage_str, exc, call>>

-----------------------------------------------------------------------------
\* The helper functions called on their own.

CallGetUsageColor ==
    /\ pc = "unit"
    /\ call.fn = "get_usage_color"
    /\ ~call.done
    /\ call' = Finished(call, get_usage_color(call.p))
    /\ UNCHANGED <<pc, system, now, stdin, data, project, model, context_percentage,
                   access_token, usage_data, usage_str, context_usage_str, stdout, exc,
                   exit_status, trace>>

CallFormatResetTime ==
    /\ pc = "unit"
    /\ call.fn = "format_reset_time"
    /\ ~call.done
    /\ call' = Finished(call, format_reset_time(call.ts, now))
    /\ UNCHANGED <<pc, system, now, stdin, data, project, model, context_percentage,
                   access_token, usage_data, usage_str, context_usage_str, stdout, exc,
                   exit_status, trace>>

-----------------------------------------------------------------------------
\* The wall clock when the process starts.
StartTime == 1000 * TicksPerDay

NoData == NoInput("none")

InitLocals ==
    /\ data = NoData
    /\ project = Absent
    /\ model = Absent
    /\ context_percentage = Absent
    /\ access_token = Absent
    /\ usage_data = NoneUsage
    /\ usage_str = <<>>
    /\ context_usage_str = <<>>
    /\ stdout = <<>>
    /\ exc = "none"
    /\ exit_status = 0 - 1
    /\ trace = <<>>

\* The script is run: main() starts with some text on stdin, on some platform.
InitMain ==
    /\ pc = "read"
    /\ system \in {"Darwin", "Linux", "Windows"}
    /\ now = StartTime
    /\ stdin \in StdinCases
    /\ call = NoCall
    /\ InitLocals

\* A helper function is called on its own with some argument.
InitUnit ==
    /\ pc = "unit"
    /\ system = "Linux"
    /\ now = StartTime
    /\ stdin = NoInput("empty")
    /\ call \in UnitCalls(StartTime)
    /\ InitLocals

Init == InitMain \/ InitUnit

Next ==
    \/ ReadInput
    \/ ExtractFields
    \/ GetAccessToken
    \/ FetchUsage
    \/ FormatUsage
    \/ NoCredentials
    \/ FormatContext
    \/ PrintLine
    \/ CallGetUsageColor
    \/ CallFormatResetTime

Spec == Init /\ [][Next]_vars

-----------------------------------------------------------------------------
\* Properties.

Count(seq, x) == Cardinality({i \in DOMAIN seq : seq[i] = x})

Stages == {"read", "extract", "lookup", "fetch", "format_usage", "format_context", "print"}
IsStage(x) == x \in Stages
StagesOf(tr) == SelectSeq(tr, IsStage)

\* The run has ended with an uncaught exception raised in the given stage.
CrashedIn(stage) ==
    /\ pc = "exit"
    /\ exc # "none"
    /\ StagesOf(trace) # <<>>
    /\ StagesOf(trace)[Len(StagesOf(trace))] = stage

ObjectOnStdin == stdin.kind = "json" /\ stdin.top.t = "obj"

\* C1: every run of main ends with exactly one newline-terminated line on stdout
\* and exit status 0, no exception reaching the process boundary.
C1_OneLineExitZero ==
    pc = "exit" =>
        /\ exc = "none"
        /\ exit_status = 0
        /\ Count(stdout, "\n") = 1
        /\ stdout[Len(stdout)] = "\n"

\* C2: whenever stdin is not a JSON object (empty, not JSON, or JSON of another
\* top-level type), main prints exactly "statusline: no data" and exits with 0.
C2_FallbackForNonObject ==
    (pc = "exit" /\ ~ObjectOnStdin) =>
        /\ stdout = <<"statusline: no data", "\n">>
        /\ exit_status = 0

\* C3: for stdin that is a JSON object, the printed line is
\* <project> | <model> | Ctx: <context%> | <usage segment>, the usage segment being
\* "No credentials" when the lookup yields no token, "Usage: N/A" when a token
\* exists but the fetch fails, and the 5h / 7d fields otherwise.
C3_LineShape ==
    (pc = "exit" /\ ObjectOnStdin) =>
        /\ exc = "none"
        /\ stdout = Line(project, model, context_usage_str, usage_str) \o <<"\n">>
        /\ access_token = Null => usage_str = <<RED, "No credentials", RESET>>
        /\ (access_token # Null /\ Count(trace, "urlopen") = 1 /\ usage_data = NoneUsage)
              => usage_str = <<RED, "Usage: N/A", RESET>>
        /\ (access_token # Null /\ usage_data # NoneUsage) => usage_str[1] = "5h: "

\* The tier of the claim: red from 80, yellow from 50 below 80, green below 50.
InTier(n, color) ==
    /\ n >= 80 * PctScale => color = RED
    /\ (50 * PctScale <= n /\ n < 80 * PctScale) => color = YELLOW
    /\ n < 50 * PctScale => color = GREEN

TierRank(color) == IF color = RED THEN 3 ELSE IF color = YELLOW THEN 2 ELSE 1

\* The position of an atom in a sequence that holds it.
IndexOf(seq, x) == CHOOSE i \in DOMAIN seq : seq[i] = x

\* The percentage of a usage window after its default.
WindowPercentage(w) == Or0(Get(w.utilization, Whole(0)))

\* C4: get_usage_color maps a number p to red when p >= 80, yellow when
\* 50 <= p < 80 and green when p < 50, monotonically in p; main and format_usage
\* colour the context percentage and both window percentages by the same mapping.
C4_ColorTiers ==
    /\ (pc = "unit" /\ call.fn = "get_usage_color" /\ call.done /\ IsNumber(call.p)) =>
          /\ call.exc = "none"
          /\ Len(call.out) = 1
          /\ InTier(NumVal(call.p), call.out[1])
          /\ \A q \in MinPct * PctScale .. NumVal(call.p) :
                TierRank(get_usage_color(Num(q)).value[1]) <= TierRank(call.out[1])
    /\ context_usage_str # <<>> =>
          InTier(NumVal(context_percentage), context_usage_str[1])
    /\ (usage_str # <<>> /\ usage_str[1] = "5h: ") =>
          /\ InTier(NumVal(WindowPercentage(usage_data.five_hour)), usage_str[2])
          /\ InTier(NumVal(WindowPercentage(usage_data.seven_day)),
                    usage_str[IndexOf(usage_str, " | 7d: ") + 1])

\* C4 witness: a run that printed a context percentage of exactly 50 in yellow
\* beside a 5h percentage of exactly 80 in red.
C4_Witness ==
    /\ pc = "exit"
    /\ exc = "none"
    /\ context_percentage = Whole(50)
    /\ context_usage_str[1] = YELLOW
    /\ usage_str[1] = "5h: "
    /\ usage_data.five_hour.utilization = Whole(80)
    /\ usage_str[2] = RED

\* The duration from now to the instant a timestamp denotes (ISO 8601: the
\* wall-clock reading less the UTC offset written with it), in ticks.
DurationUntil(ts, t_now) == ts.wall - ts.off * TicksPerMinute - t_now

IsTimestamp(ts) == ts.t = "str" /\ ts.form \in {"Z", "offset", "naive"}

\* The rendering the claim gives a duration of d ticks.
Humanized(d) ==
    LET day == 24 * 60 * 60 * TicksPerSecond
        hour == 60 * 60 * TicksPerSecond
        minute == 60 * TicksPerSecond
    IN  IF d <= 0 THEN <<" (now)">>
        ELSE IF d >= day
             THEN <<" (", ToString(d \div day), "d ", ToString((d % day) \div hour), "h)">>
        ELSE IF d >= hour
             THEN <<" (", ToString(d \div hour), "h ", ToString((d % hour) \div minute), "m)">>
        ELSE IF d >= minute THEN <<" (", ToString(d \div minute), "m)">>
        ELSE <<" (<1m)">>

\* C5: for a parseable timestamp d away, format_reset_time returns " (now)" for
\* d <= 0, " (Nd Mh)" from a day, " (Nh Mm)" from an hour, " (Nm)" from a minute,
\* " (<1m)" below; 90 minutes is " (1h 30m)", 30 seconds " (<1m)", 2 days 3 hours
\* " (2d 3h)".
C5_ResetTime ==
    (pc = "unit" /\ call.fn = "format_reset_time" /\ call.done /\ IsTimestamp(call.ts)) =>
        LET d == DurationUntil(call.ts, now)
        IN  /\ call.exc = "none"
            /\ call.out = Humanized(d)
            /\ d = 90 * 60 * TicksPerSecond => call.out = <<" (", "1", "h ", "30", "m)">>
            /\ d = 30 * TicksPerSecond => call.out = <<" (<1m)">>
            /\ d = (2 * 24 + 3) * 60 * 60 * TicksPerSecond
                  => call.out = <<" (", "2", "d ", "3", "h)">>

\* C5 witness: a timestamp written with a UTC offset, 2 days 3 hours ahead, has
\* been formatted as " (2d 3h)".
C5_Witness ==
    /\ pc = "unit"
    /\ call.fn = "format_reset_time"
    /\ call.done
    /\ call.ts.form = "offset"
    /\ call.ts.off # 0
    /\ DurationUntil(call.ts, now) = (2 * 24 + 3) * 60 * 60 * TicksPerSecond
    /\ call.out = <<" (", "2", "d ", "3", "h)">>

\* C6: for a resets_at that is missing, null, empty or not a parseable timestamp
\* string, whatever its JSON type, format_reset_time returns the empty string
\* and nothing fails.
C6_UnparseableIsEmpty ==
    (pc = "unit" /\ call.fn = "format_reset_time" /\ call.done /\ ~IsTimestamp(call.ts)) =>
        /\ call.exc = "none"
        /\ call.out = <<>>

\* C7: get_access_token never raises, and returns a token string or None.
C7_LookupNeverRaises ==
    /\ ~CrashedIn("lookup")
    /\ access_token.t \in {"absent", "null", "str"}

\* C8: fetch_usage never raises; every failure yields None.
C8_FetchNeverRaises == ~CrashedIn("fetch")

\* C9: for stdin that is a JSON object, extracting the fields and rendering
\* them cannot fail, whatever is absent, null or of an unexpected type.
C9_ExtractionNeverFails ==
    ObjectOnStdin => (~CrashedIn("extract") /\ ~CrashedIn("format_context"))

StageRank(x) ==
    CASE x = "read" -> 1
      [] x = "extract" -> 2
      [] x = "lookup" -> 3
      [] x = "fetch" -> 4
      [] x = "format_usage" -> 5
      [] x = "format_context" -> 6
      [] x = "print" -> 7

\* The lookup has returned a token main takes as one.
HasToken == access_token.t # "absent" /\ Truthy(access_token)

\* C10: the stages happen in the order read, extract, lookup, fetch, format,
\* print, none twice; the lookup at most once; the GET at most once, only after
\* the lookup returned a token, exactly once when it did and never when it did
\* not; when stdin does not parse, neither happens before the fallback line.
C10_StageOrder ==
    LET st == StagesOf(trace)
    IN  /\ \A i, j \in DOMAIN st : i < j => StageRank(st[i]) < StageRank(st[j])
        /\ Count(trace, "lookup") <= 1
        /\ Count(trace, "urlopen") <= 1
        /\ Count(trace, "security") + Count(trace, "open") <= Count(trace, "lookup")
        /\ Count(trace, "urlopen") = 1 =>
              /\ HasToken
              /\ IndexOf(trace, "lookup") < IndexOf(trace, "urlopen")
        /\ (HasToken /\ pc # "fetch") => Count(trace, "urlopen") = 1
        /\ ~HasToken => Count(trace, "urlopen") = 0
        /\ (pc # "unit" /\ ReadAndParse(stdin).exc # "none") =>
              trace \in {<<>>, <<"read", "print">>}

\* C10 witness: a run that went through every stage once, in order, and ended.
C10_Witness ==
    /\ pc = "exit"
    /\ trace = <<"read", "extract", "lookup", "open", "fetch", "urlopen",
                 "format_usage", "format_context", "print">>

====
